---- MODULE Spec2Model ----
(***************************************************************************)
(* State machine of the photo-frame editor of src/app.js: the uploaded     *)
(* image (img), its transform (imgData), the pointer/pinch tracking        *)
(* variables, the in-flight uploads and exports, and one action per event  *)
(* handler or asynchronous callback.                                       *)
(*                                                                         *)
(* Numbers that the code keeps as JavaScript doubles and that do not stay  *)
(* integral (scale, draw origin and size) are exact rationals <<n, d>> in  *)
(* lowest terms with d > 0, extended with the IEEE values the code can     *)
(* produce: <<1, 0>> is Infinity, <<-1, 0>> is -Infinity, <<0, 0>> is NaN. *)
(* Rounding of doubles is not modelled.                                    *)
(***************************************************************************)
EXTENDS Integers, Sequences, FiniteSets, TLC

\* ------------------------------------------------------------- constants
CANVAS_SIZE == 800
\* 10 * 1024 * 1024
maxSize == 10485760
\* the null of `let lastDist = null` (distances are never negative)
NULL == -1

\* ---------------------------------------------------------------- inputs
\* decoded images (native width, height) a file can hold
Images == { [w |-> 1600, h |-> 800], [w |-> 400, h |-> 1000] }
\* file.type of a selected file
FileTypes == { "image/jpeg", "image/jpg", "image/png", "image/gif",
               "image/webp", "text/plain", "image/bmp" }
\* file.size of a selected file: 1 MiB, exactly 10 MiB, 10 MiB + 1, 15 MB
FileSizes == { 1048576, 10485760, 10485761, 15000000 }
\* the selected files: every type at 1 MiB, every size as a PNG, and a text
\* file of 15 MB, each holding one of the images I
Files(I) ==
  { [type |-> t, size |-> 1048576, image |-> i] : t \in FileTypes, i \in I }
  \cup { [type |-> "image/png", size |-> s, image |-> i] : s \in FileSizes, i \in I }
  \cup { [type |-> "text/plain", size |-> 15000000, image |-> i] : i \in I }
\* pointer / first-contact positions in CSS pixels relative to the canvas
Points == { <<0, 0>>, <<10, 0>>, <<10, 10>> }
\* vector from the first to the second touch contact, CSS pixels; two
\* simultaneous contacts are at distinct points
PinchVecs == { <<3, 4>>, <<10, 0>> }
\* displayed (CSS) side of the square canvas container
DisplaySizes == { 400, 800 }
\* e.deltaY of a wheel event
WheelDeltas == { -100, -1, 0, 3 }
\* e.key of a keydown event
Keys == { "ArrowUp", "ArrowDown", "ArrowLeft", "ArrowRight",
          "+", "=", "-", "_", "a" }

\* ------------------------------------------------------------ arithmetic
Abs(i) == IF i < 0 THEN -i ELSE i

Sign(i) == IF i < 0 THEN -1 ELSE IF i = 0 THEN 0 ELSE 1

RECURSIVE GCD(_, _)
GCD(a, b) == IF b = 0 THEN a ELSE GCD(b, a % b)

\* n / d as a double: lowest terms, or Infinity / -Infinity / NaN when d = 0
Norm(n, d) ==
  IF d = 0 THEN <<Sign(n), 0>>
  ELSE LET g == GCD(Abs(n), Abs(d))
           s == Sign(d)
       IN  <<(s * n) \div g, (s * d) \div g>>

FromInt(i) == <<i, 1>>

IsNaN(a) == a = <<0, 0>>

IsFinite(a) == a[2] # 0

\* a * b, cancelling across before multiplying
Mul(a, b) ==
  IF a[2] = 0 \/ b[2] = 0 THEN <<Sign(a[1]) * Sign(b[1]), 0>>
  ELSE LET g1 == GCD(Abs(a[1]), b[2])
           g2 == GCD(Abs(b[1]), a[2])
       IN  Norm((a[1] \div g1) * (b[1] \div g2), (a[2] \div g2) * (b[2] \div g1))

\* a / 2
Half(a) == Norm(a[1], 2 * a[2])

Add(a, b) ==
  IF IsNaN(a) \/ IsNaN(b) THEN <<0, 0>>
  ELSE IF a[2] = 0 /\ b[2] = 0 THEN (IF a[1] = b[1] THEN a ELSE <<0, 0>>)
  ELSE IF a[2] = 0 THEN a
  ELSE IF b[2] = 0 THEN b
  ELSE Norm(a[1] * b[2] + b[1] * a[2], a[2] * b[2])

Neg(a) == <<-a[1], a[2]>>

Sub(a, b) == Add(a, Neg(b))

\* a <= b on finite values
Leq(a, b) == a[1] * b[2] <= b[1] * a[2]

\* Math.max of two finite values
MathMax(a, b) == IF Leq(a, b) THEN b ELSE a

\* Math.hypot(dx, dy); the inputs are chosen so that the root is an integer
Hypot(dx, dy) == CHOOSE r \in 0..(Abs(dx) + Abs(dy)) : r * r = dx * dx + dy * dy

\* s without its i-th element
RemoveAt(s, i) == SubSeq(s, 1, i - 1) \o SubSeq(s, i + 1, Len(s))

\* ToNumber of a value that is a number or null
ToNumber(v) == IF v = NULL THEN 0 ELSE v

\* ----------------------------------------------------------------- state
VARIABLES
  img,          \* the SourceImage: NoImage or [w, h]
  imgData,      \* the transform record of lines 14-22
  isDragging,   \* line 183
  lastPointer,  \* line 184, <<x, y>> in canvas pixels
  lastDist,     \* line 185, NULL or a distance
  canvas,       \* canvas.width/height and canvas.style.width/height
  surface,      \* what the preview canvas shows
  touches,      \* number of contacts on the screen (e.touches.length)
  uploads,      \* uploads in flight, in the order started: [image, stage,
                \* latest], latest while no later upload has been started
  exports,      \* exports in flight: sequence of [layer, framed, stage]
  zooms,        \* scale multiplications since the image was loaded
  alert,        \* the message the last handler showed with showError, or "none"
  download,     \* the file it handed to the browser, or NoDownload
  gest          \* the gesture in progress since it started undisturbed, or
                \* the reset or the image load the last handler made

vars == <<img, imgData, isDragging, lastPointer, lastDist, canvas, surface,
          touches, uploads, exports, zooms, alert, download, gest>>

NoImage == [w |-> 0, h |-> 0]

Blank == [img |-> NoImage, ox |-> <<0, 1>>, oy |-> <<0, 1>>,
          w |-> <<0, 1>>, h |-> <<0, 1>>]

NoDownload == [made |-> FALSE, layer |-> Blank, framed |-> FALSE]

NoGest == [kind |-> "none", x0 |-> 0, y0 |-> 0, px |-> 0, py |-> 0,
           cx |-> 0, cy |-> 0, n |-> 0, s0 |-> <<1, 1>>, ds |-> <<>>,
           latest |-> FALSE]

\* the object literal of lines 14-22 and of line 75
DefaultImgData == [x |-> 0, y |-> 0, scale |-> <<1, 1>>, drag |-> FALSE,
                   lastX |-> 0, lastY |-> 0, lastDist |-> 0]

\* what one handler run shows and hands to the browser
Out(msg, file) == alert' = msg /\ download' = file

\* ------------------------------------------------------------ compositor
\* the drawImage arguments of draw(), lines 97-125, on a W x H surface
DrawLayer(image, data, W, H) ==
  IF image = NoImage THEN Blank
  ELSE LET imgW == Mul(FromInt(image.w), data.scale)
           imgH == Mul(FromInt(image.h), data.scale)
       IN  [img |-> image,
            ox  |-> Add(Sub(FromInt(data.x), Half(imgW)), Half(FromInt(W))),
            oy  |-> Add(Sub(FromInt(data.y), Half(imgH)), Half(FromInt(H))),
            w   |-> imgW,
            h   |-> imgH]

\* draw() on the preview canvas
draw(image, data, cv) == DrawLayer(image, data, cv.width, cv.height)

\* ExportLayer that takes the offsets as the top-left corner
ExportLayerTopLeft(image, data) ==
  [img |-> image,
   ox  |-> FromInt(data.x),
   oy  |-> FromInt(data.y),
   w   |-> Mul(FromInt(image.w), data.scale),
   h   |-> Mul(FromInt(image.h), data.scale)]

\* the image layer of the export canvas, lines 340-355
ExportLayer(image, data) ==
  LET imgW == Mul(FromInt(image.w), data.scale)
      imgH == Mul(FromInt(image.h), data.scale)
  IN  [img |-> image,
       ox  |-> Add(Sub(FromInt(data.x), Half(imgW)), Half(FromInt(CANVAS_SIZE))),
       oy  |-> Add(Sub(FromInt(data.y), Half(imgH)), Half(FromInt(CANVAS_SIZE))),
       w   |-> imgW,
       h   |-> imgH]

\* ----------------------------------------------------------------- setup
\* the state after DOMContentLoaded (lines 87-94) in a container of side sz
InitIn(D) ==
  /\ img = NoImage
  /\ imgData = DefaultImgData
  /\ isDragging = FALSE
  /\ lastPointer = <<0, 0>>
  /\ lastDist = NULL
  /\ \E sz \in D :
       canvas = [width |-> CANVAS_SIZE, height |-> CANVAS_SIZE,
                 styleW |-> sz, styleH |-> sz]
  /\ surface = Blank
  /\ touches = 0
  /\ uploads = <<>>
  /\ exports = <<>>
  /\ zooms = 0
  /\ alert = "none"
  /\ download = NoDownload
  /\ gest = NoGest

\* resizeCanvasToDisplay, lines 57-70, as the window resize listener: sz is
\* the container's new side; assigning canvas.width clears the bitmap
Resize(sz) ==
  /\ canvas' = [width |-> CANVAS_SIZE, height |-> CANVAS_SIZE,
                styleW |-> sz, styleH |-> sz]
  /\ surface' = Blank
  /\ gest' = NoGest
  /\ Out("none", NoDownload)
  /\ UNCHANGED <<img, imgData, isDragging, lastPointer, lastDist, touches,
                 uploads, exports, zooms>>

\* resetState(), lines 72-83
resetState ==
  /\ img' = NoImage
  /\ imgData' = DefaultImgData

\* reset button, lines 402-410: resetState(); draw()
ResetClick ==
  /\ resetState
  /\ surface' = draw(img', imgData', canvas)
  /\ zooms' = 0
  /\ gest' = [NoGest EXCEPT !.kind = "reset"]
  /\ Out("none", NoDownload)
  /\ UNCHANGED <<isDragging, lastPointer, lastDist, canvas, touches, uploads,
                 exports>>

\* ---------------------------------------------------------------- upload
\* validateImageFile, lines 44-54: the message of the Error it throws, or
\* "none" when it returns
validTypes == { "image/jpeg", "image/jpg", "image/png", "image/gif", "image/webp" }

\* validateImageFile without the size check
validateImageFileTypeOnly(type, size) ==
  IF type \notin validTypes
  THEN "Please select a valid image file (JPEG, PNG, GIF, or WebP)"
  ELSE "none"

validateImageFile(type, size) ==
  IF type \notin validTypes
  THEN "Please select a valid image file (JPEG, PNG, GIF, or WebP)"
  ELSE IF size > maxSize
  THEN "Image file is too large. Please select a file smaller than 10MB"
  ELSE "none"

\* change handler, lines 128-179, with a file selected
PhotoChange(type, size, image) ==
  LET err == validateImageFile(type, size) IN
  /\ IF err # "none"
     THEN /\ UNCHANGED uploads
          /\ Out(err, NoDownload)
     ELSE /\ uploads' = Append([i \in DOMAIN uploads |->
                                    [uploads[i] EXCEPT !.latest = FALSE]],
                               [image |-> image, stage |-> "reading",
                                latest |-> TRUE])
          /\ Out("none", NoDownload)
  /\ gest' = NoGest
  /\ UNCHANGED <<img, imgData, isDragging, lastPointer, lastDist, canvas,
                 surface, touches, exports, zooms>>

\* change handler with the selection cancelled, line 129
PhotoChangeEmpty ==
  /\ gest' = NoGest
  /\ Out("none", NoDownload)
  /\ UNCHANGED <<img, imgData, isDragging, lastPointer, lastDist, canvas,
                 surface, touches, uploads, exports, zooms>>

\* reader.onerror, lines 139-141, of the i-th upload in flight
ReaderError(i) ==
  /\ i \in DOMAIN uploads /\ uploads[i].stage = "reading"
  /\ uploads' = RemoveAt(uploads, i)
  /\ gest' = NoGest
  /\ Out("Error reading the selected file. Please try again.", NoDownload)
  /\ UNCHANGED <<img, imgData, isDragging, lastPointer, lastDist, canvas,
                 surface, touches, exports, zooms>>

\* reader.onload, lines 143-173: the decode of the data URL starts
ReaderLoad(i) ==
  /\ i \in DOMAIN uploads /\ uploads[i].stage = "reading"
  /\ uploads' = [uploads EXCEPT ![i].stage = "decoding"]
  /\ gest' = NoGest
  /\ Out("none", NoDownload)
  /\ UNCHANGED <<img, imgData, isDragging, lastPointer, lastDist, canvas,
                 surface, touches, exports, zooms>>

\* ImageError that also drops the image on the canvas
ImageErrorClears(i) ==
  /\ i \in DOMAIN uploads /\ uploads[i].stage = "decoding"
  /\ uploads' = RemoveAt(uploads, i)
  /\ img' = NoImage
  /\ imgData' = DefaultImgData
  /\ surface' = Blank
  /\ gest' = NoGest
  /\ Out("Error loading the image. Please try a different file.", NoDownload)
  /\ UNCHANGED <<isDragging, lastPointer, lastDist, canvas, touches, exports,
                 zooms>>

\* image.onerror, lines 147-149
ImageError(i) ==
  /\ i \in DOMAIN uploads /\ uploads[i].stage = "decoding"
  /\ uploads' = RemoveAt(uploads, i)
  /\ gest' = NoGest
  /\ Out("Error loading the image. Please try a different file.", NoDownload)
  /\ UNCHANGED <<img, imgData, isDragging, lastPointer, lastDist, canvas,
                 surface, touches, exports, zooms>>

\* FitScale with the smaller of the two ratios
FitScaleMin(w, h) ==
  Mul(IF Leq(Norm(CANVAS_SIZE, w), Norm(CANVAS_SIZE, h))
      THEN Norm(CANVAS_SIZE, w) ELSE Norm(CANVAS_SIZE, h), <<95, 100>>)

\* lines 155-159: Math.max(CANVAS_SIZE / w, CANVAS_SIZE / h) * 0.95
FitScale(w, h) ==
  Mul(MathMax(Norm(CANVAS_SIZE, w), Norm(CANVAS_SIZE, h)), <<95, 100>>)

\* image.onload, lines 151-167
ImageLoad(i) ==
  /\ i \in DOMAIN uploads /\ uploads[i].stage = "decoding"
  /\ uploads' = RemoveAt(uploads, i)
  /\ img' = uploads[i].image
  /\ imgData' = [imgData EXCEPT !.scale = FitScale(img'.w, img'.h),
                                !.x = 0, !.y = 0]
  /\ surface' = draw(img', imgData', canvas)
  /\ zooms' = 0
  /\ gest' = [NoGest EXCEPT !.kind = "load", !.x0 = imgData.x,
                            !.y0 = imgData.y, !.s0 = imgData.scale,
                            !.latest = uploads[i].latest]
  /\ Out("none", NoDownload)
  /\ UNCHANGED <<isDragging, lastPointer, lastDist, canvas, touches, exports>>

\* ------------------------------------------------------ mouse and touch
\* CSS pixels to canvas pixels: c * (internal / displayed), lines 193-194,
\* 207-208, 220-221; exact for the displayed sizes of DisplaySizes
ToCanvas(c, internal, displayed) == (c * internal) \div displayed

\* a position relative to the canvas, in canvas pixels
CanvasPos(p, cv) == <<ToCanvas(p[1], cv.width, cv.styleW),
                      ToCanvas(p[2], cv.height, cv.styleH)>>

\* DragTo with the y delta taken from the x coordinate of the last position
DragToMixed(data, last, pos) ==
  [data EXCEPT !.x = data.x + (pos[1] - last[1]),
               !.y = data.y + (pos[2] - last[1])]

\* lines 222-224 and 264-266: the new offsets after a move to pos
DragTo(data, last, pos) ==
  [data EXCEPT !.x = data.x + (pos[1] - last[1]),
               !.y = data.y + (pos[2] - last[2])]

\* the gesture record of a drag that starts now at pos
DragStart(kind, pos) ==
  [NoGest EXCEPT !.kind = kind, !.x0 = imgData.x, !.y0 = imgData.y,
                 !.px = pos[1], !.py = pos[2], !.cx = pos[1], !.cy = pos[2]]

\* the gesture record after one more move of the drag of that kind
DragStep(kind, pos) ==
  IF gest.kind = kind
  THEN [gest EXCEPT !.cx = pos[1], !.cy = pos[2],
                    !.n = IF gest.n < 2 THEN gest.n + 1 ELSE gest.n]
  ELSE NoGest

\* mousedown, lines 202-214
MouseDown(p) ==
  /\ IF img = NoImage
     THEN /\ UNCHANGED <<isDragging, lastPointer>>
          /\ gest' = NoGest
     ELSE /\ isDragging' = TRUE
          /\ lastPointer' = CanvasPos(p, canvas)
          /\ gest' = DragStart("mouse", lastPointer')
  /\ Out("none", NoDownload)
  /\ UNCHANGED <<img, imgData, lastDist, canvas, surface, touches, uploads,
                 exports, zooms>>

\* mousemove, lines 216-229
MouseMove(p) ==
  /\ IF img = NoImage \/ ~isDragging
     THEN /\ UNCHANGED <<imgData, lastPointer, surface>>
          /\ gest' = NoGest
     ELSE LET pos == CanvasPos(p, canvas) IN
          /\ imgData' = DragTo(imgData, lastPointer, pos)
          /\ lastPointer' = pos
          /\ surface' = draw(img, imgData', canvas)
          /\ gest' = DragStep("mouse", pos)
  /\ Out("none", NoDownload)
  /\ UNCHANGED <<img, isDragging, lastDist, canvas, touches, uploads,
                 exports, zooms>>

\* mouseup, lines 231-238
MouseUp ==
  /\ isDragging' = FALSE
  /\ gest' = IF gest.kind = "mouse" THEN [gest EXCEPT !.kind = "mouse done"]
             ELSE NoGest
  /\ Out("none", NoDownload)
  /\ UNCHANGED <<img, imgData, lastPointer, lastDist, canvas, surface, touches,
                 uploads, exports, zooms>>

\* touchstart, lines 240-257: n contacts are down after it, the first at p,
\* the second at p + v
TouchStart(n, p, v) ==
  /\ touches < n
  /\ touches' = n
  /\ IF img = NoImage
     THEN /\ UNCHANGED <<isDragging, lastPointer, lastDist>>
          /\ gest' = NoGest
     ELSE IF n = 1
     THEN /\ isDragging' = TRUE
          /\ lastPointer' = CanvasPos(p, canvas)
          /\ UNCHANGED lastDist
          /\ gest' = DragStart("touch", lastPointer')
     ELSE IF n = 2
     THEN /\ isDragging' = FALSE
          /\ lastDist' = Hypot(v[1], v[2])
          /\ UNCHANGED lastPointer
          /\ gest' = [NoGest EXCEPT !.kind = "pinch", !.x0 = imgData.x,
                                    !.y0 = imgData.y, !.s0 = imgData.scale,
                                    !.ds = <<lastDist'>>]
     ELSE /\ UNCHANGED <<isDragging, lastPointer, lastDist>>
          /\ gest' = NoGest
  /\ Out("none", NoDownload)
  /\ UNCHANGED <<img, imgData, canvas, surface, uploads, exports,
                 zooms>>

\* PinchTo that does not record the new distance
PinchToStale(data, last, d) ==
  [data |-> [data EXCEPT !.scale = Mul(data.scale, Norm(d, ToNumber(last)))],
   last |-> last]

\* lines 270-276: the transform and the recorded distance after a two-contact
\* move at distance d
PinchTo(data, last, d) ==
  [data |-> [data EXCEPT !.scale = Mul(data.scale, Norm(d, ToNumber(last)))],
   last |-> d]

\* touchmove, lines 259-283: the first contact is at p, the second at p + v
TouchMove(p, v) ==
  /\ touches >= 1
  /\ IF img # NoImage /\ touches = 1 /\ isDragging
     THEN LET pos == CanvasPos(p, canvas) IN
          /\ imgData' = DragTo(imgData, lastPointer, pos)
          /\ lastPointer' = pos
          /\ surface' = draw(img, imgData', canvas)
          /\ gest' = DragStep("touch", pos)
          /\ UNCHANGED <<lastDist, zooms>>
     ELSE IF img # NoImage /\ touches = 2
     THEN LET r == PinchTo(imgData, lastDist, Hypot(v[1], v[2])) IN
          /\ zooms' = zooms + 1
          /\ imgData' = r.data
          /\ lastDist' = r.last
          /\ surface' = draw(img, imgData', canvas)
          /\ gest' = IF gest.kind = "pinch" /\ Len(gest.ds) < 3
                     THEN [gest EXCEPT !.ds = Append(gest.ds, Hypot(v[1], v[2]))]
                     ELSE NoGest
          /\ UNCHANGED lastPointer
     ELSE /\ UNCHANGED <<imgData, lastPointer, lastDist, surface, zooms>>
          /\ gest' = NoGest
  /\ Out("none", NoDownload)
  /\ UNCHANGED <<img, isDragging, canvas, touches, uploads,
                 exports>>

\* touchend, lines 285-292: n contacts stay down
TouchEnd(n) ==
  /\ 0 <= n /\ n < touches
  /\ touches' = n
  /\ isDragging' = FALSE
  /\ lastDist' = NULL
  /\ gest' = IF gest.kind = "touch" THEN [gest EXCEPT !.kind = "touch done"]
             ELSE NoGest
  /\ Out("none", NoDownload)
  /\ UNCHANGED <<img, imgData, lastPointer, canvas, surface, uploads,
                 exports, zooms>>

\* ---------------------------------------------------- wheel and keyboard
\* line 299
scaleFactor(deltaY) == IF deltaY < 0 THEN <<107, 100>> ELSE <<93, 100>>

\* wheel, lines 295-305
Wheel(deltaY) ==
  /\ IF img = NoImage
     THEN /\ UNCHANGED <<imgData, surface, zooms>>
          /\ gest' = NoGest
     ELSE /\ zooms' = zooms + 1
          /\ imgData' = [imgData EXCEPT !.scale = Mul(@, scaleFactor(deltaY))]
          /\ surface' = draw(img, imgData', canvas)
          /\ gest' = IF gest.kind = "wheel" /\ Len(gest.ds) < 2
                     THEN [gest EXCEPT !.ds = Append(gest.ds, deltaY)]
                     ELSE [NoGest EXCEPT !.kind = "wheel", !.x0 = imgData.x,
                                         !.y0 = imgData.y, !.s0 = imgData.scale,
                                         !.ds = <<deltaY>>]
  /\ Out("none", NoDownload)
  /\ UNCHANGED <<img, isDragging, lastPointer, lastDist, canvas, touches,
                 uploads, exports>>

\* KeyEffect with ArrowUp moving down and the default case redrawing
KeyEffectSwapped(data, key) ==
  CASE key \in {"ArrowUp", "ArrowDown"} ->
         [data |-> [data EXCEPT !.y = @ + 10], handled |-> TRUE]
    [] key = "ArrowLeft"  -> [data |-> [data EXCEPT !.x = @ - 10], handled |-> TRUE]
    [] key = "ArrowRight" -> [data |-> [data EXCEPT !.x = @ + 10], handled |-> TRUE]
    [] key \in {"+", "="} ->
         [data |-> [data EXCEPT !.scale = Mul(@, <<107, 100>>)], handled |-> TRUE]
    [] key \in {"-", "_"} ->
         [data |-> [data EXCEPT !.scale = Mul(@, <<93, 100>>)], handled |-> TRUE]
    [] OTHER -> [data |-> data, handled |-> TRUE]

\* the switch of lines 311-323: the transform after key, and whether the
\* key was handled (the default case returns before draw())
KeyEffect(data, key) ==
  CASE key = "ArrowUp"    -> [data |-> [data EXCEPT !.y = @ - 10], handled |-> TRUE]
    [] key = "ArrowDown"  -> [data |-> [data EXCEPT !.y = @ + 10], handled |-> TRUE]
    [] key = "ArrowLeft"  -> [data |-> [data EXCEPT !.x = @ - 10], handled |-> TRUE]
    [] key = "ArrowRight" -> [data |-> [data EXCEPT !.x = @ + 10], handled |-> TRUE]
    [] key \in {"+", "="} ->
         [data |-> [data EXCEPT !.scale = Mul(@, <<107, 100>>)], handled |-> TRUE]
    [] key \in {"-", "_"} ->
         [data |-> [data EXCEPT !.scale = Mul(@, <<93, 100>>)], handled |-> TRUE]
    [] OTHER -> [data |-> data, handled |-> FALSE]

\* keydown on the focused canvas, lines 308-328
KeyDown(key) ==
  /\ IF img = NoImage
     THEN UNCHANGED <<imgData, surface, zooms>>
     ELSE LET r == KeyEffect(imgData, key) IN
          /\ imgData' = r.data
          /\ zooms' = IF key \in {"+", "=", "-", "_"} THEN zooms + 1 ELSE zooms
          /\ surface' = IF r.handled THEN draw(img, imgData', canvas) ELSE surface
  /\ gest' = NoGest
  /\ Out("none", NoDownload)
  /\ UNCHANGED <<img, isDragging, lastPointer, lastDist, canvas, touches,
                 uploads, exports>>

\* ---------------------------------------------------------------- export
\* the download button without the guard of lines 332-335
DownloadClickUnguarded ==
  /\ exports' = Append(exports, [layer |-> ExportLayer(img, imgData),
                                 framed |-> FALSE, stage |-> "overlay"])
  /\ Out("none", NoDownload)
  /\ gest' = NoGest
  /\ UNCHANGED <<img, imgData, isDragging, lastPointer, lastDist, canvas,
                 surface, touches, uploads, zooms>>

\* download button, lines 331-399, up to `overlayImg.src = ...`
DownloadClick ==
  /\ IF img = NoImage
     THEN /\ UNCHANGED exports
          /\ Out("Please upload an image first.", NoDownload)
     ELSE /\ exports' = Append(exports, [layer |-> ExportLayer(img, imgData),
                                         framed |-> FALSE, stage |-> "overlay"])
          /\ Out("none", NoDownload)
  /\ gest' = NoGest
  /\ UNCHANGED <<img, imgData, isDragging, lastPointer, lastDist, canvas,
                 surface, touches, uploads, zooms>>

\* OverlayError that goes on to serialize the canvas without the frame
OverlayErrorProceeds(i) ==
  /\ i \in DOMAIN exports /\ exports[i].stage = "overlay"
  /\ exports' = [exports EXCEPT ![i].stage = "toBlob"]
  /\ gest' = NoGest
  /\ Out("Error loading the frame overlay. Please try again.", NoDownload)
  /\ UNCHANGED <<img, imgData, isDragging, lastPointer, lastDist, canvas,
                 surface, touches, uploads, zooms>>

\* overlayImg.onerror, lines 361-363
OverlayError(i) ==
  /\ i \in DOMAIN exports /\ exports[i].stage = "overlay"
  /\ exports' = RemoveAt(exports, i)
  /\ gest' = NoGest
  /\ Out("Error loading the frame overlay. Please try again.", NoDownload)
  /\ UNCHANGED <<img, imgData, isDragging, lastPointer, lastDist, canvas,
                 surface, touches, uploads, zooms>>

\* overlayImg.onload, lines 365-393: the frame is drawn, toBlob is started
OverlayLoad(i) ==
  /\ i \in DOMAIN exports /\ exports[i].stage = "overlay"
  /\ exports' = [exports EXCEPT ![i].framed = TRUE, ![i].stage = "toBlob"]
  /\ gest' = NoGest
  /\ Out("none", NoDownload)
  /\ UNCHANGED <<img, imgData, isDragging, lastPointer, lastDist, canvas,
                 surface, touches, uploads, zooms>>

\* BlobCallback that serializes the image as it is when the callback runs
BlobCallbackLive(i, hasBlob) ==
  /\ i \in DOMAIN exports /\ exports[i].stage = "toBlob"
  /\ exports' = RemoveAt(exports, i)
  /\ gest' = NoGest
  /\ IF hasBlob
     THEN Out("none", [made |-> TRUE, layer |-> DrawLayer(img, imgData, 800, 800),
                                 framed |-> exports[i].framed])
     ELSE Out("Error downloading the image. Please try again.",
              NoDownload)
  /\ UNCHANGED <<img, imgData, isDragging, lastPointer, lastDist, canvas,
                 surface, touches, uploads, zooms>>

\* toBlob callback, lines 371-389; hasBlob is FALSE when blob is null
BlobCallback(i, hasBlob) ==
  /\ i \in DOMAIN exports /\ exports[i].stage = "toBlob"
  /\ exports' = RemoveAt(exports, i)
  /\ gest' = NoGest
  /\ IF hasBlob
     THEN Out("none", [made |-> TRUE, layer |-> exports[i].layer,
                                 framed |-> exports[i].framed])
     ELSE Out("Error downloading the image. Please try again.",
              NoDownload)
  /\ UNCHANGED <<img, imgData, isDragging, lastPointer, lastDist, canvas,
                 surface, touches, uploads, zooms>>

\* --------------------------------------------------------- specification
\* numerator and denominator of a scale that is multiplied further
MaxTerm == 1000000

\* a zoom step is explored while the loaded image has had fewer than z and
\* the terms of its scale are below MaxTerm
CanZoom(z) ==
  \/ img = NoImage
  \/ /\ zooms < z
     /\ Abs(imgData.scale[1]) < MaxTerm /\ imgData.scale[2] < MaxTerm

\* the offsets are within o pixels
InBox(o) ==
  /\ -o <= imgData.x /\ imgData.x <= o
  /\ -o <= imgData.y /\ imgData.y <= o

\* the editing handlers and the upload callbacks, explored with at most z
\* scale multiplications applied to one loaded image, at most t touch
\* contacts, offsets within o pixels, at most u uploads in flight, pointer
\* positions P, container sides D and uploaded images I
Edit(z, t, o, u, P, D, I) ==
  \/ \E sz \in D : Resize(sz)
  \/ ResetClick
  \/ \E f \in Files(I) : PhotoChange(f.type, f.size, f.image) /\ Len(uploads') <= u
  \/ PhotoChangeEmpty
  \/ \E i \in DOMAIN uploads : ReaderError(i)
  \/ \E i \in DOMAIN uploads : ReaderLoad(i)
  \/ \E i \in DOMAIN uploads : ImageError(i)
  \/ \E i \in DOMAIN uploads : ImageLoad(i)
  \/ \E p \in P : MouseDown(p)
  \/ \E p \in P : MouseMove(p) /\ InBox(o)'
  \/ MouseUp
  \/ \E n \in 1..t, p \in P, v \in PinchVecs : TouchStart(n, p, v)
  \/ \E p \in P, v \in PinchVecs :
       (touches # 2 \/ CanZoom(z)) /\ TouchMove(p, v) /\ InBox(o)'
  \/ \E n \in 0..t : TouchEnd(n)
  \/ \E d \in WheelDeltas : CanZoom(z) /\ Wheel(d)
  \/ \E k \in Keys :
       (k \notin {"+", "=", "-", "_"} \/ CanZoom(z)) /\ KeyDown(k) /\ InBox(o)'

\* the download button and the callbacks of the export pipeline, explored
\* with at most e exports in flight; they write exports, alert and download
\* and nothing the editing handlers read
Export(e) ==
  \/ DownloadClick /\ Len(exports') <= e
  \/ \E i \in DOMAIN exports : OverlayError(i)
  \/ \E i \in DOMAIN exports : OverlayLoad(i)
  \/ \E i \in DOMAIN exports, b \in BOOLEAN : BlobCallback(i, b)

\* ---------------------------------------------------------------- bounds
\* scale multiplications applied to one loaded image
MaxZooms == 3
\* simultaneous touch contacts
MaxTouches == 3
\* |imgData.x|, |imgData.y|
MaxOffset == 20
\* uploads in flight together
MaxUploads == 1
\* exports in flight together
MaxExports == 1

Origin == { <<0, 0>> }
OneSize == { 800 }
OneImage == { [w |-> 1600, h |-> 800] }

\* dragging: one pointer or one contact anywhere in Points, the container
\* resized at will, no zoom
SpecDrag ==
  /\ InitIn(DisplaySizes)
  /\ [][Edit(0, 1, MaxOffset, MaxUploads, Points, DisplaySizes, OneImage)]_vars

\* zooming: wheel, keys and up to MaxTouches contacts, the pointer at rest,
\* one upload at a time
SpecZoom ==
  /\ InitIn(OneSize)
  /\ [][Edit(MaxZooms, MaxTouches, 0, 1, Origin, OneSize, OneImage)]_vars

\* uploading over an edited image: both images, one zoom step, offsets of
\* one keyboard step
SpecLoad ==
  /\ InitIn(OneSize)
  /\ [][Edit(1, 1, 10, MaxUploads, Origin, OneSize, Images)]_vars

\* keyboard: one image uploaded once at a time, one zoom step, offsets of
\* one keyboard step
SpecKeys ==
  /\ InitIn(OneSize)
  /\ [][Edit(1, 1, 10, 1, Origin, OneSize, OneImage)]_vars

\* uploads in flight together when they race
MaxRacing == 2

\* racing uploads: up to MaxRacing uploads of both images in flight, the
\* image neither moved nor zoomed
SpecRace ==
  /\ InitIn(OneSize)
  /\ [][Edit(0, 1, 0, MaxRacing, Origin, OneSize, Images)]_vars

\* exporting a moved image: every handler and callback, offsets of one
\* keyboard step, no zoom, one export at a time
SpecCompose ==
  /\ InitIn(OneSize)
  /\ [][Edit(0, 1, 10, 1, Origin, OneSize, OneImage) \/ Export(1)]_vars

\* exporting: every handler and callback, the editing ones with one zoom
\* step on one uploaded image
SpecExport ==
  /\ InitIn(OneSize)
  /\ [][Edit(1, 1, 0, 1, Origin, OneSize, OneImage) \/ Export(MaxExports)]_vars

\* ---------------------------------------------------------------- claims
\* C1: with an image loaded, after a pointer-down (or one-contact
\* touch-start) followed by any number of moves, and after the pointer-up
\* that ends them, the offsets are those at the pointer-down plus the
\* displacement from the pointer-down position to the latest position,
\* however many moves the motion was split into.
DragMovesBySum ==
  gest.kind \in {"mouse", "mouse done", "touch", "touch done"} =>
    /\ imgData.x = gest.x0 + (gest.cx - gest.px)
    /\ imgData.y = gest.y0 + (gest.cy - gest.py)

\* a finished mouse drag of two moves that displaced the image on both axes
DragWitness ==
  /\ gest.kind = "mouse done" /\ gest.n = 2
  /\ imgData.x # gest.x0 /\ imgData.y # gest.y0

\* a finished one-contact touch drag of two moves
TouchDragWitness ==
  /\ gest.kind = "touch done" /\ gest.n = 2
  /\ imgData.x # gest.x0

\* C2: a selected file whose type is outside the allow-list or whose size
\* exceeds 10 MiB is answered with a validation error, starts no read or
\* decode, and leaves img and imgData as they were.
InvalidFileRejected ==
  [][LET InvalidFile(f) ==
           \/ f.type \notin {"image/jpeg", "image/jpg", "image/png", "image/gif",
                             "image/webp"}
           \/ f.size > 10 * 1024 * 1024
     IN  \A f \in Files(Images) :
           (InvalidFile(f) /\ PhotoChange(f.type, f.size, f.image)) =>
             /\ alert' \in {"Please select a valid image file (JPEG, PNG, GIF, or WebP)",
                            "Image file is too large. Please select a file smaller than 10MB"}
             /\ UNCHANGED <<uploads, img, imgData, surface>>]_vars

\* an oversized file was just rejected while an edited image is loaded
RejectedWitness ==
  /\ alert = "Image file is too large. Please select a file smaller than 10MB"
  /\ img # NoImage
  /\ imgData.x # 0

\* C3: a download click without an image shows the error and starts
\* nothing: no export enters the pipeline and nothing is downloaded, and
\* every export in flight and every download carries a loaded image.
ExportNeedsImage ==
  /\ [][(img = NoImage /\ DownloadClick) =>
          /\ alert' = "Please upload an image first."
          /\ exports' = exports
          /\ download' = NoDownload]_vars
  /\ [](\A i \in DOMAIN exports : exports[i].layer.img # NoImage)
  /\ [](download.made => download.layer.img # NoImage)

\* the download button was just clicked with no image
NoImageExportWitness ==
  /\ alert = "Please upload an image first."
  /\ img = NoImage
  /\ exports = <<>>

\* C4: after a Reset click img is absent, the surface is blank and every
\* field of the transform state is at its default, also the tracking
\* variables isDragging, lastPointer and lastDist.
ResetRestoresDefaults ==
  [][ResetClick =>
       /\ img' = NoImage
       /\ surface' = Blank
       /\ imgData'.x = 0 /\ imgData'.y = 0 /\ imgData'.scale = <<1, 1>>
       /\ isDragging' = FALSE
       /\ lastPointer' = <<0, 0>>
       /\ lastDist' = NULL]_vars

\* C5: when a decode finishes, img is the decoded image, the offsets are
\* (0, 0) and scale * 100 * min(w, h) = 95 * 800, that is
\* scale = max(800 / w, 800 / h) * 0.95.
FitAndCenterOnLoad ==
  [][\A i \in DOMAIN uploads :
       (uploads[i].stage = "decoding" /\ uploads' = RemoveAt(uploads, i)
          /\ alert' = "none") =>
         LET m == IF img'.w <= img'.h THEN img'.w ELSE img'.h
             sc == imgData'.scale
         IN  /\ img' = uploads[i].image
             /\ imgData'.x = 0 /\ imgData'.y = 0
             /\ sc[2] > 0
             /\ sc[1] * 100 * m = sc[2] * 95 * 800]_vars

\* an image was just loaded over a moved and zoomed one
LoadWitness ==
  /\ gest.kind = "load"
  /\ gest.x0 # 0
  /\ gest.s0 \notin {<<1, 1>>, imgData.scale, <<19, 20>>, <<19, 10>>}

\* C6: from a two-contact touch-start at distance d0 with an image loaded,
\* two-contact moves at d1 and then d2 leave scale at
\* s0 * (d1 / d0) * (d2 / d1), the recorded distance at the latest one, and
\* the offsets where they were.
PinchMultipliesByRatios ==
  gest.kind = "pinch" =>
    LET ds == gest.ds
        s1 == IF Len(ds) >= 2 THEN Mul(gest.s0, Norm(ds[2], ds[1])) ELSE gest.s0
        s2 == IF Len(ds) >= 3 THEN Mul(s1, Norm(ds[3], ds[2])) ELSE s1
    IN  /\ imgData.scale = s2
        /\ lastDist = ds[Len(ds)]
        /\ imgData.x = gest.x0 /\ imgData.y = gest.y0

\* a pinch d0 -> d1 -> d2 with both moves changing the distance
PinchWitness ==
  /\ gest.kind = "pinch" /\ Len(gest.ds) = 3
  /\ gest.ds[1] # gest.ds[2] /\ gest.ds[2] # gest.ds[3]
  /\ IsFinite(imgData.scale)

\* C7: with an image loaded every wheel event multiplies scale by 107/100
\* when deltaY < 0 and by 93/100 otherwise, whatever the size of deltaY,
\* and keeps the offsets; a zoom-in followed by a zoom-out from scale s
\* leaves s * 9951/10000, which is not s.
WheelMultipliesByFixedFactor ==
  gest.kind = "wheel" =>
    LET WheelFactor(d) == IF d < 0 THEN <<107, 100>> ELSE <<93, 100>>
        ds == gest.ds
        s1 == Mul(gest.s0, WheelFactor(ds[1]))
        s2 == IF Len(ds) = 2 THEN Mul(s1, WheelFactor(ds[2])) ELSE s1
    IN  /\ imgData.scale = s2
        /\ imgData.x = gest.x0 /\ imgData.y = gest.y0
        /\ (Len(ds) = 2 /\ ds[1] < 0 /\ ds[2] >= 0) =>
             /\ imgData.scale = Mul(gest.s0, <<9951, 10000>>)
             /\ imgData.scale # gest.s0

\* C8: scale is a finite, strictly positive number in every reachable
\* state.
ScaleStaysPositive == IsFinite(imgData.scale) /\ imgData.scale[1] > 0

\* C9: a drag and pinch tracking are never active together.
DragAndPinchExclusive == ~(isDragging /\ lastDist # NULL)

\* C10: while no image is loaded, the gesture handlers leave the transform
\* state and the tracking variables unchanged.
GesturesNoOpWithoutImage ==
  [][LET GestureStep ==
           \/ \E p \in Points : MouseDown(p) \/ MouseMove(p)
           \/ MouseUp
           \/ \E n \in 1..MaxTouches, p \in Points, v \in PinchVecs :
                TouchStart(n, p, v)
           \/ \E p \in Points, v \in PinchVecs : TouchMove(p, v)
           \/ \E n \in 0..MaxTouches : TouchEnd(n)
           \/ \E d \in WheelDeltas : Wheel(d)
           \/ \E k \in Keys : KeyDown(k)
     IN  (img = NoImage /\ GestureStep) =>
           UNCHANGED <<imgData, isDragging, lastPointer, lastDist>>]_vars

\* C11: when the file read or the decode of an upload fails, its callback
\* shows an error and leaves img, imgData and the preview as they were.
FailedUploadLeavesState ==
  [][\A i \in DOMAIN uploads :
       /\ ReaderError(i) =>
            /\ alert' = "Error reading the selected file. Please try again."
            /\ UNCHANGED <<img, imgData, surface>>
       /\ ImageError(i) =>
            /\ alert' = "Error loading the image. Please try a different file."
            /\ UNCHANGED <<img, imgData, surface>>]_vars

\* a decode just failed while an image moved by the keyboard is loaded
FailedUploadWitness ==
  /\ alert = "Error loading the image. Please try a different file."
  /\ img # NoImage
  /\ imgData.x # 0

\* C12: when the overlay of an export fails to load, an error is shown,
\* nothing is downloaded and the export is over; a download is made only by
\* the serialization callback of an export whose overlay has loaded and
\* been drawn, when it is given data, and that export is then over, so that
\* one click makes at most one download.
DownloadOnlyAfterOverlay ==
  /\ [][\A i \in DOMAIN exports :
          OverlayError(i) =>
            /\ alert' = "Error loading the frame overlay. Please try again."
            /\ download' = NoDownload
            /\ exports' = RemoveAt(exports, i)]_vars
  /\ [][download'.made =>
          \E i \in DOMAIN exports :
            /\ exports[i].stage = "toBlob" /\ exports[i].framed
            /\ download'.framed
            /\ exports' = RemoveAt(exports, i)]_vars
  /\ [][\A i \in DOMAIN exports :
          BlobCallback(i, FALSE) =>
            /\ alert' = "Error downloading the image. Please try again."
            /\ download' = NoDownload]_vars
  /\ [](download.made => download.framed /\ download.layer.img # NoImage)

\* a framed file was just downloaded and no export is left in flight
DownloadWitness ==
  /\ download.made /\ download.framed
  /\ exports = <<>>

\* C13: a viewport resize changes only the displayed size of the canvas:
\* the internal resolution stays 800 x 800, and img, every field of the
\* transform state and what the drawing surface holds stay as they were.
ResizeChangesOnlyDisplaySize ==
  [][\A sz \in DisplaySizes :
       Resize(sz) =>
         /\ canvas'.width = 800 /\ canvas'.height = 800
         /\ UNCHANGED <<img, imgData, isDragging, lastPointer, lastDist>>
         /\ UNCHANGED surface]_vars

\* C14: when an upload started before the latest-started one completes its
\* decode after the latest-started one has, img and the fitted transform
\* stay those of the latest-started upload.
LatestUploadWins ==
  [][\A i \in DOMAIN uploads :
       (gest.kind = "load" /\ gest.latest /\ ~uploads[i].latest /\ ImageLoad(i)) =>
         /\ img' = img
         /\ imgData' = imgData]_vars

\* C15: the image layer a download click draws on the export canvas has
\* the origin and the size the preview compositor computes for the same
\* img and imgData: size (w * scale, h * scale) and origin
\* (x - w * scale / 2 + 400, y - h * scale / 2 + 400), which puts the
\* centre of the image at (400 + x, 400 + y).
ExportDrawsAsPreview ==
  [][(img # NoImage /\ DownloadClick) =>
       LET e  == exports'[Len(exports')].layer
           iw == Mul(FromInt(img.w), imgData.scale)
           ih == Mul(FromInt(img.h), imgData.scale)
       IN  /\ e = draw(img, imgData, canvas)
           /\ e.img = img /\ e.w = iw /\ e.h = ih
           /\ e.ox = Add(Sub(FromInt(imgData.x), Half(iw)), FromInt(400))
           /\ e.oy = Add(Sub(FromInt(imgData.y), Half(ih)), FromInt(400))
           /\ e.ox = Sub(FromInt(400 + imgData.x), Half(iw))
           /\ e.oy = Sub(FromInt(400 + imgData.y), Half(ih))]_vars

\* an export is in flight whose image was moved on both axes at the click
ExportMovedWitness ==
  /\ exports # <<>>
  /\ exports[1].layer.ox # Sub(FromInt(400), Half(exports[1].layer.w))
  /\ exports[1].layer.oy # Sub(FromInt(400), Half(exports[1].layer.h))

\* C16: with an image loaded, ArrowUp / ArrowDown change y by -10 / +10,
\* ArrowLeft / ArrowRight change x by -10 / +10, "+" or "=" multiply scale
\* by 107/100, "-" or "_" multiply it by 93/100, each leaving the other
\* fields as they were and redrawing; any other key leaves the transform
\* state and the surface as they were.
KeysMoveAndZoom ==
  [][\A k \in Keys :
       (img # NoImage /\ KeyDown(k)) =>
         LET d == imgData IN
         /\ k = "ArrowUp"    => imgData' = [d EXCEPT !.y = d.y - 10]
         /\ k = "ArrowDown"  => imgData' = [d EXCEPT !.y = d.y + 10]
         /\ k = "ArrowLeft"  => imgData' = [d EXCEPT !.x = d.x - 10]
         /\ k = "ArrowRight" => imgData' = [d EXCEPT !.x = d.x + 10]
         /\ k \in {"+", "="} =>
              imgData' = [d EXCEPT !.scale = Mul(d.scale, <<107, 100>>)]
         /\ k \in {"-", "_"} =>
              imgData' = [d EXCEPT !.scale = Mul(d.scale, <<93, 100>>)]
         /\ IF k \in {"ArrowUp", "ArrowDown", "ArrowLeft", "ArrowRight",
                       "+", "=", "-", "_"}
            THEN surface' = DrawLayer(img, imgData', 800, 800)
            ELSE UNCHANGED <<imgData, surface>>
         /\ UNCHANGED <<img, isDragging, lastPointer, lastDist>>]_vars

\* the loaded image was moved left and down and zoomed in by the keyboard
KeysWitness ==
  /\ img # NoImage
  /\ imgData.x = -10 /\ imgData.y = 10
  /\ imgData.scale = Mul(FitScale(img.w, img.h), <<107, 100>>)

\* C17: the image layer of a downloaded file is the one composed from img
\* and imgData at the download click: the click fixes it, no handler that
\* runs while the export is in flight changes it, and the download carries
\* it.
ExportFixedAtClick ==
  /\ [][(img # NoImage /\ DownloadClick) =>
          exports' = Append(exports, [layer  |-> DrawLayer(img, imgData, 800, 800),
                                      framed |-> FALSE,
                                      stage  |-> "overlay"])]_vars
  /\ [][Len(exports') = Len(exports) =>
          \A i \in DOMAIN exports : exports'[i].layer = exports[i].layer]_vars
  /\ [][download'.made =>
          \E i \in DOMAIN exports :
            /\ download'.layer = exports[i].layer
            /\ exports' = RemoveAt(exports, i)]_vars

\* a file was just downloaded whose image layer is no longer the one of
\* the current img and imgData
StaleExportWitness ==
  /\ download.made
  /\ download.layer # DrawLayer(img, imgData, 800, 800)

\* C18: after a Reset click the completion of a read or decode that was in
\* flight at the click installs no image and leaves the transform state
\* at its defaults.
ResetOutlivesPendingUpload ==
  [][\A i \in DOMAIN uploads :
       (/\ gest.kind = "reset"
        /\ ReaderLoad(i) \/ ReaderError(i) \/ ImageError(i) \/ ImageLoad(i)) =>
         /\ img' = NoImage
         /\ imgData' = DefaultImgData]_vars

\* C19: after every handler the preview surface shows what the compositor
\* produces for the current img and imgData, blank when there is no image.
PreviewShowsComposition == surface = DrawLayer(img, imgData, 800, 800)

====
